---------------------------- MODULE Spec2Model ----------------------------
(***************************************************************************)
(* The logical Wumpus World agent (src/solution.py) and the environment    *)
(* it plays against (src/environment.py).                                  *)
(*                                                                         *)
(* The agent is a record with the fields Agent.new_episode creates; every  *)
(* method of Agent is an operator from agent records to agent records.     *)
(* The environment is a record with the fields WumpusWorld.reset creates.  *)
(***************************************************************************)
EXTENDS Integers, Sequences, FiniteSets, TLC

(* ------------------------------ bounds --------------------------------- *)

\* Grid width and height (Agent.__init__ / WumpusWorld.__init__ size).
Width == 2
Height == 2
\* get_action calls per episode when the percepts are arbitrary.
MaxSteps == 5
\* Pits a generated world holds at most.
MaxPits == 3

(* ------------------------------- grid ---------------------------------- *)

\* The grid's (width, height): the size Agent.__init__ and
\* WumpusWorld.__init__ store; both objects are built with the same one.
VARIABLE size

(* --------------------------- vocabulary -------------------------------- *)

\* wumpus.Orientation
NORTH == 0
EAST == 1
SOUTH == 2
WEST == 3
Orientations == {NORTH, EAST, SOUTH, WEST}

\* wumpus.Actions
FORWARD == "FORWARD"
LEFT == "LEFT"
RIGHT == "RIGHT"
GRAB == "GRAB"
SHOOT == "SHOOT"
CLIMB == "CLIMB"
\* Python's None, as an action and as a coordinate.
NoAction == "None"
NoCell == <<-100, -100>>

Home == <<0, 0>>

\* A percept vector: one boolean per wumpus.Percepts key.
PerceptVectors ==
    [breeze : BOOLEAN, glitter : BOOLEAN, bump : BOOLEAN,
     stench : BOOLEAN, scream : BOOLEAN]

NoPercept ==
    [breeze |-> FALSE, glitter |-> FALSE, bump |-> FALSE,
     stench |-> FALSE, scream |-> FALSE]

Cells == (0 .. size[1] - 1) \X (0 .. size[2] - 1)

InBounds(c) == 0 <= c[1] /\ c[1] < size[1] /\ 0 <= c[2] /\ c[2] < size[2]

(* ------------------------- Agent: helpers ------------------------------ *)

\* new_episode with "self.safe = set()": the start cell left out of safe.
NewEpisodeAgentEmptySafe ==
    [pos |-> Home, orientation |-> EAST, has_gold |-> FALSE,
     has_arrow |-> TRUE, wumpus_alive |-> TRUE,
     visited |-> {Home}, safe |-> {}, pit_safe |-> {Home},
     wumpus_safe |-> {Home}, stench_at |-> {}, plan |-> <<>>,
     actually_moved |-> FALSE]

\* Agent.new_episode
NewEpisodeAgent ==
    [pos |-> Home, orientation |-> EAST, has_gold |-> FALSE,
     has_arrow |-> TRUE, wumpus_alive |-> TRUE,
     visited |-> {Home}, safe |-> {Home}, pit_safe |-> {Home},
     wumpus_safe |-> {Home}, stench_at |-> {}, plan |-> <<>>,
     actually_moved |-> FALSE]

\* The offsets Agent._get_adjacent walks, in its order.
AdjacentOffsets == << <<0, 1>>, <<1, 0>>, <<0, -1>>, <<-1, 0>> >>

\* Agent._get_adjacent: the in-bounds neighbours, as the ordered list.
GetAdjacent(pos) ==
    LET cand == [i \in 1 .. 4 |->
                    <<pos[1] + AdjacentOffsets[i][1], pos[2] + AdjacentOffsets[i][2]>>]
    IN  SelectSeq(cand, InBounds)

SeqRange(s) == {s[i] : i \in 1 .. Len(s)}

Abs(n) == IF n < 0 THEN -n ELSE n

\* Agent._manhattan
Manhattan(pos1, pos2) == Abs(pos1[1] - pos2[1]) + Abs(pos1[2] - pos2[2])

\* Agent._get_forward_position: the cell ahead, or None outside the grid.
GetForwardPosition(pos, orient) ==
    LET n == IF orient = EAST THEN <<pos[1] + 1, pos[2]>>
             ELSE IF orient = NORTH THEN <<pos[1], pos[2] - 1>>
             ELSE IF orient = WEST THEN <<pos[1] - 1, pos[2]>>
             ELSE <<pos[1], pos[2] + 1>>
    IN  IF InBounds(n) THEN n ELSE NoCell

\* Agent._get_previous_position: one cell back along the current heading,
\* with no bounds check.
GetPreviousPosition(a) ==
    IF a.orientation = EAST THEN <<a.pos[1] - 1, a.pos[2]>>
    ELSE IF a.orientation = NORTH THEN <<a.pos[1], a.pos[2] + 1>>
    ELSE IF a.orientation = WEST THEN <<a.pos[1] + 1, a.pos[2]>>
    ELSE <<a.pos[1], a.pos[2] - 1>>

\* Agent._turn
Turn(orient, action) ==
    IF action = LEFT THEN (orient - 1) % 4
    ELSE IF action = RIGHT THEN (orient + 1) % 4
    ELSE orient

\* _execute_action with the LEFT branch left out.
ExecuteActionWithoutLeft(a, action) ==
    IF action = FORWARD
    THEN LET next_pos == GetForwardPosition(a.pos, a.orientation)
         IN  IF next_pos # NoCell THEN [a EXCEPT !.pos = next_pos] ELSE a
    ELSE IF action = RIGHT
    THEN [a EXCEPT !.orientation = Turn(a.orientation, RIGHT)]
    ELSE IF action = GRAB
    THEN [a EXCEPT !.has_gold = TRUE]
    ELSE a

\* Agent._execute_action: the optimistic prediction of the action's effect.
ExecuteAction(a, action) ==
    IF action = FORWARD
    THEN LET next_pos == GetForwardPosition(a.pos, a.orientation)
         IN  IF next_pos # NoCell THEN [a EXCEPT !.pos = next_pos] ELSE a
    ELSE IF action = LEFT
    THEN [a EXCEPT !.orientation = Turn(a.orientation, LEFT)]
    ELSE IF action = RIGHT
    THEN [a EXCEPT !.orientation = Turn(a.orientation, RIGHT)]
    ELSE IF action = GRAB
    THEN [a EXCEPT !.has_gold = TRUE]
    ELSE a

(* --------------------- Agent: knowledge update ------------------------- *)

\* _update_knowledge as it would be if a stench retracted what was known:
\* the neighbours are removed from wumpus_safe when stench is present.
UpdateKnowledgeRetracting(a, breeze, stench) ==
    LET adjacent == SeqRange(GetAdjacent(a.pos))
        ps == IF ~breeze THEN a.pit_safe \cup adjacent ELSE a.pit_safe
        ws == IF ~stench THEN a.wumpus_safe \cup adjacent
              ELSE a.wumpus_safe \ adjacent
    IN  [a EXCEPT !.pit_safe = ps,
                  !.wumpus_safe = ws,
                  !.safe = a.safe \cup {c \in adjacent : c \in ps /\ c \in ws}]

\* _update_knowledge with the breeze test inverted ("if breeze:").
UpdateKnowledgeOnPresence(a, breeze, stench) ==
    LET adjacent == SeqRange(GetAdjacent(a.pos))
        ps == IF breeze THEN a.pit_safe \cup adjacent ELSE a.pit_safe
        ws == IF ~stench THEN a.wumpus_safe \cup adjacent ELSE a.wumpus_safe
    IN  [a EXCEPT !.pit_safe = ps,
                  !.wumpus_safe = ws,
                  !.safe = a.safe \cup {c \in adjacent : c \in ps /\ c \in ws}]

\* _update_knowledge with the final loop reading the sets as they were
\* before this call's additions.
UpdateKnowledgeStaleSafe(a, breeze, stench) ==
    LET adjacent == SeqRange(GetAdjacent(a.pos))
        ps == IF ~breeze THEN a.pit_safe \cup adjacent ELSE a.pit_safe
        ws == IF ~stench THEN a.wumpus_safe \cup adjacent ELSE a.wumpus_safe
    IN  [a EXCEPT !.pit_safe = ps,
                  !.wumpus_safe = ws,
                  !.safe = a.safe \cup {c \in adjacent :
                                          c \in a.pit_safe /\ c \in a.wumpus_safe}]

\* _update_knowledge with "or" for "and" in the final loop: a neighbour
\* joins safe when it is in pit_safe or in wumpus_safe.
UpdateKnowledgeEitherSafe(a, breeze, stench) ==
    LET adjacent == SeqRange(GetAdjacent(a.pos))
        ps == IF ~breeze THEN a.pit_safe \cup adjacent ELSE a.pit_safe
        ws == IF ~stench THEN a.wumpus_safe \cup adjacent ELSE a.wumpus_safe
    IN  [a EXCEPT !.pit_safe = ps,
                  !.wumpus_safe = ws,
                  !.safe = a.safe \cup {c \in adjacent : c \in ps \/ c \in ws}]

\* Agent._update_knowledge
UpdateKnowledge(a, breeze, stench) ==
    LET adjacent == SeqRange(GetAdjacent(a.pos))
        ps == IF ~breeze THEN a.pit_safe \cup adjacent ELSE a.pit_safe
        ws == IF ~stench THEN a.wumpus_safe \cup adjacent ELSE a.wumpus_safe
    IN  [a EXCEPT !.pit_safe = ps,
                  !.wumpus_safe = ws,
                  !.safe = a.safe \cup {c \in adjacent : c \in ps /\ c \in ws}]

(* ------------------------- Agent: shooting ----------------------------- *)

\* _shoot_at_cell without "self.has_arrow = False".
ShootAtCellKeepingArrow(a, target) ==
    LET dx == target[1] - a.pos[1]
        dy == target[2] - a.pos[2]
        needed == IF dx = 1 THEN EAST
                  ELSE IF dx = -1 THEN WEST
                  ELSE IF dy = -1 THEN NORTH
                  ELSE SOUTH
    IN  IF a.orientation # needed
        THEN LET action == IF Turn(a.orientation, RIGHT) = needed
                           THEN RIGHT ELSE LEFT
             IN  [agent |-> ExecuteAction(a, action), action |-> action]
        ELSE [agent |-> a, action |-> SHOOT]

\* Agent._shoot_at_cell: turn towards the target, or shoot when facing it.
\* Returns the agent after the call and the action returned.
ShootAtCell(a, target) ==
    LET dx == target[1] - a.pos[1]
        dy == target[2] - a.pos[2]
        needed == IF dx = 1 THEN EAST
                  ELSE IF dx = -1 THEN WEST
                  ELSE IF dy = -1 THEN NORTH
                  ELSE SOUTH
    IN  IF a.orientation # needed
        THEN LET action == IF Turn(a.orientation, RIGHT) = needed
                           THEN RIGHT ELSE LEFT
             IN  [agent |-> ExecuteAction(a, action), action |-> action]
        ELSE [agent |-> [a EXCEPT !.has_arrow = FALSE], action |-> SHOOT]

(* ------------------------ Agent: BFS planner --------------------------- *)

\* One entry of the planner's queue: (pos, orient, path).
Node(pos, orient, path) == [pos |-> pos, orient |-> orient, path |-> path]

\* The planner's "if state not in visited: visited.add(state);
\* queue.append(...)"; s holds the queue and the visited set.
Enqueue(s, pos, orient, path) ==
    IF <<pos, orient>> \in s.visited
    THEN s
    ELSE [queue |-> Append(s.queue, Node(pos, orient, path)),
          visited |-> s.visited \cup {<<pos, orient>>}]

\* The planner's expansion without the "next_pos in self.safe" test.
ExpandIgnoringSafe(s, node, safe) ==
    LET s1 == Enqueue(s, node.pos, Turn(node.orient, LEFT),
                      Append(node.path, LEFT))
        s2 == Enqueue(s1, node.pos, Turn(node.orient, RIGHT),
                      Append(node.path, RIGHT))
        next_pos == GetForwardPosition(node.pos, node.orient)
    IN  IF next_pos # NoCell
        THEN Enqueue(s2, next_pos, node.orient, Append(node.path, FORWARD))
        ELSE s2

\* The planner's expansion with the turns tried RIGHT first, then LEFT.
ExpandRightFirst(s, node, safe) ==
    LET s1 == Enqueue(s, node.pos, Turn(node.orient, RIGHT),
                      Append(node.path, RIGHT))
        s2 == Enqueue(s1, node.pos, Turn(node.orient, LEFT),
                      Append(node.path, LEFT))
        next_pos == GetForwardPosition(node.pos, node.orient)
    IN  IF next_pos # NoCell /\ next_pos \in safe
        THEN Enqueue(s2, next_pos, node.orient, Append(node.path, FORWARD))
        ELSE s2

\* The body of the planner's loop after the goal test: LEFT, then RIGHT,
\* then FORWARD into an in-bounds member of safe.
Expand(s, node, safe) ==
    LET s1 == Enqueue(s, node.pos, Turn(node.orient, LEFT),
                      Append(node.path, LEFT))
        s2 == Enqueue(s1, node.pos, Turn(node.orient, RIGHT),
                      Append(node.path, RIGHT))
        next_pos == GetForwardPosition(node.pos, node.orient)
    IN  IF next_pos # NoCell /\ next_pos \in safe
        THEN Enqueue(s2, next_pos, node.orient, Append(node.path, FORWARD))
        ELSE s2

\* The planner's "while idx < len(queue)" loop; idx counts from 1 here.
RECURSIVE Search(_, _, _, _)
Search(s, idx, goal, safe) ==
    IF idx > Len(s.queue)
    THEN [found |-> FALSE, path |-> <<>>]
    ELSE LET node == s.queue[idx]
         IN  IF node.pos = goal
             THEN [found |-> node.path # <<>>, path |-> node.path]
             ELSE Search(Expand(s, node, safe), idx + 1, goal, safe)

\* _plan_route_to as it would be if it cleared the standing plan before it
\* searched.
PlanRouteToClearingPlan(a, goal) ==
    IF a.pos = goal
    THEN [agent |-> [a EXCEPT !.plan = <<>>], action |-> NoAction]
    ELSE LET r == Search([queue |-> <<Node(a.pos, a.orientation, <<>>)>>,
                          visited |-> {<<a.pos, a.orientation>>}],
                         1, goal, a.safe)
         IN  IF r.found
             THEN [agent |-> [a EXCEPT !.plan = Tail(r.path)],
                   action |-> Head(r.path)]
             ELSE [agent |-> [a EXCEPT !.plan = <<>>], action |-> NoAction]

\* Agent._plan_route_to: the agent after the call and the action returned
\* (None when already at the goal or when no route exists).
PlanRouteTo(a, goal) ==
    IF a.pos = goal
    THEN [agent |-> a, action |-> NoAction]
    ELSE LET r == Search([queue |-> <<Node(a.pos, a.orientation, <<>>)>>,
                          visited |-> {<<a.pos, a.orientation>>}],
                         1, goal, a.safe)
         IN  IF r.found
             THEN [agent |-> [a EXCEPT !.plan = Tail(r.path)],
                   action |-> Head(r.path)]
             ELSE [agent |-> a, action |-> NoAction]

(* ----------------------- Agent: get_action ----------------------------- *)

\* get_action, "Handle bump - correct position".
BumpCorrection(a, bump) ==
    IF bump THEN [a EXCEPT !.pos = GetPreviousPosition(a)] ELSE a

\* The scream handling without "self.safe.add(cell)".
ScreamPromotionWithoutSafe(a, scream) ==
    IF scream
    THEN [a EXCEPT !.wumpus_alive = FALSE,
                   !.wumpus_safe = a.wumpus_safe \cup a.pit_safe]
    ELSE a

\* get_action, "Handle wumpus death - pit-safe cells become fully safe".
ScreamPromotion(a, scream) ==
    IF scream
    THEN [a EXCEPT !.wumpus_alive = FALSE,
                   !.wumpus_safe = a.wumpus_safe \cup a.pit_safe,
                   !.safe = a.safe \cup a.pit_safe]
    ELSE a

\* get_action, "Update knowledge base" and "Track stench locations".
RecordObservation(a, stench) ==
    [a EXCEPT !.visited = a.visited \cup {a.pos},
              !.safe = a.safe \cup {a.pos},
              !.stench_at = IF stench THEN a.stench_at \cup {a.pos}
                            ELSE a.stench_at]

\* The bookkeeping get_action does before it decides anything.
Observe(a, p) ==
    RecordObservation(ScreamPromotion(BumpCorrection(a, p.bump), p.scream),
                      p.stench)

\* What one get_action call yields: the agent after it, the action returned,
\* the policy rule that returned it and the cell the rule aimed at.
Outcome(a, action, rule, goal) ==
    [agent |-> a, action |-> action, rule |-> rule, target |-> goal]

\* "action = self._plan_route_to(goal); self._execute_action(action);
\* return action", for a goal the planner finds a route to.
Planned(a, goal, rule) ==
    LET r == PlanRouteTo(a, goal)
    IN  Outcome(ExecuteAction(r.agent, r.action), r.action, rule, goal)

\* get_action, "Go home if nothing else to do", and the final CLIMB.
Retreat(a) ==
    IF a.pos # Home /\ PlanRouteTo(a, Home).action # NoAction
    THEN Planned(a, Home, "retreat")
    ELSE Outcome(a, CLIMB, "climb", NoCell)

\* The first cell of _get_adjacent(pos) that is not in visited, or None.
FirstUnvisited(a) ==
    LET unvisited == SelectSeq(GetAdjacent(a.pos), LAMBDA c : c \notin a.visited)
    IN  IF unvisited = <<>> THEN NoCell ELSE Head(unvisited)

\* The shooting block without the "self.has_arrow" test.
ShootingWithoutArrowTest(a) ==
    IF a.wumpus_alive /\ a.pos \in a.stench_at
       /\ FirstUnvisited(a) # NoCell
    THEN LET r == ShootAtCell(a, FirstUnvisited(a))
         IN  Outcome(r.agent, r.action, "shoot", FirstUnvisited(a))
    ELSE Retreat(a)

\* get_action, "If stuck and wumpus alive, try to shoot it".
Shooting(a) ==
    IF a.wumpus_alive /\ a.has_arrow /\ a.pos \in a.stench_at
       /\ FirstUnvisited(a) # NoCell
    THEN LET r == ShootAtCell(a, FirstUnvisited(a))
         IN  Outcome(r.agent, r.action, "shoot", FirstUnvisited(a))
    ELSE Retreat(a)

\* The cells min(safe_unvisited, key=manhattan) may return: Python's min
\* takes the first minimum in the set's iteration order, which the code
\* does not fix.
NearestTargets(a) ==
    LET safe_unvisited == a.safe \ a.visited
    IN  {c \in safe_unvisited :
            \A d \in safe_unvisited :
                Manhattan(a.pos, c) <= Manhattan(a.pos, d)}

\* get_action, "Explore nearest safe unvisited cell": one outcome per cell
\* min may return.
Explore(a) ==
    IF a.safe \ a.visited = {}
    THEN {Shooting(a)}
    ELSE {IF PlanRouteTo(a, t).action # NoAction
          THEN Planned(a, t, "explore")
          ELSE Shooting(a) : t \in NearestTargets(a)}

\* The plan branch with "self.plan[0]" for "self.plan.pop(0)": the head is
\* returned and stays in the plan.
ContinuePlanKeepingHead(a) ==
    IF a.plan # <<>>
    THEN {Outcome(ExecuteAction(a, Head(a.plan)), Head(a.plan), "plan", NoCell)}
    ELSE Explore(a)

\* get_action, "Execute existing plan".
ContinuePlan(a) ==
    IF a.plan # <<>>
    THEN {Outcome(ExecuteAction([a EXCEPT !.plan = Tail(a.plan)], Head(a.plan)),
                  Head(a.plan), "plan", NoCell)}
    ELSE Explore(a)

\* get_action, "If we have gold -> go home".
GoldReturn(a) ==
    IF a.has_gold
    THEN IF a.pos = Home
         THEN {Outcome(a, CLIMB, "gold_climb", NoCell)}
         ELSE IF PlanRouteTo(a, Home).action # NoAction
              THEN {Planned(a, Home, "gold_return")}
              ELSE ContinuePlan(a)
    ELSE ContinuePlan(a)

\* The glitter branch without "self.has_gold = True".
GrabGoldWithoutFlag(a) == Outcome(a, GRAB, "grab", NoCell)

\* get_action, "Grab gold immediately": the return before _update_knowledge.
GrabGold(a) == Outcome([a EXCEPT !.has_gold = TRUE], GRAB, "grab", NoCell)

\* get_action with _update_knowledge called before the glitter return.
GetActionUpdatingBeforeGrab(a, p) ==
    LET a1 == UpdateKnowledge(Observe(a, p), p.breeze, p.stench)
    IN  IF p.glitter
        THEN {GrabGold(a1)}
        ELSE GoldReturn(a1)

\* Agent.get_action: the set of outcomes of one call (one per choice of min).
GetAction(a, p) ==
    LET a1 == Observe(a, p)
    IN  IF p.glitter
        THEN {GrabGold(a1)}
        ELSE GoldReturn(UpdateKnowledge(a1, p.breeze, p.stench))

(* --------------------------- WumpusWorld ------------------------------- *)

\* WumpusWorld._get_adjacent, as a set (the world only tests membership).
WorldAdjacent(pos) ==
    {c \in {<<pos[1], pos[2] - 1>>, <<pos[1], pos[2] + 1>>,
            <<pos[1] + 1, pos[2]>>, <<pos[1] - 1, pos[2]>>} : InBounds(c)}

\* WumpusWorld.reset before _generate_world, with the placement filled in.
\* score and steps are performance counters nothing reads; they are left out.
NewWorld(pits, wumpus_pos, gold_pos) ==
    [agent_pos |-> Home, agent_dir |-> EAST, agent_alive |-> TRUE,
     has_gold |-> FALSE, has_arrow |-> TRUE, exited |-> FALSE,
     wumpus_alive |-> TRUE, wumpus_pos |-> wumpus_pos, gold_pos |-> gold_pos,
     pits |-> pits, bump |-> FALSE, scream |-> FALSE]

\* WumpusWorld._generate_world: every placement random can produce with at
\* most MaxPits pits. Pits anywhere but (0,0); the wumpus on a cell that is
\* neither (0,0) nor a pit; the gold on any cell but (0,0); neither is placed
\* when every cell is a pit.
GeneratedWorlds ==
    LET cells == Cells \ {Home}
    IN  UNION {
            LET available == cells \ pits
            IN  IF available = {}
                THEN {NewWorld(pits, NoCell, NoCell)}
                ELSE {NewWorld(pits, wp, gp) : wp \in available, gp \in cells}
            : pits \in {ps \in SUBSET cells : Cardinality(ps) <= MaxPits}}

\* get_percept without "Reset one-time percepts".
GetPerceptKeepingFlags(w) ==
    LET adjacent == WorldAdjacent(w.agent_pos)
    IN  [percept |->
            [breeze |-> \E c \in adjacent : c \in w.pits,
             stench |-> w.wumpus_alive /\ w.wumpus_pos \in adjacent,
             glitter |-> w.agent_pos = w.gold_pos /\ ~w.has_gold,
             bump |-> w.bump,
             scream |-> w.scream],
         world |-> w]

\* WumpusWorld.get_percept: the percept vector, and the world with its
\* one-shot bump and scream reset.
GetPercept(w) ==
    LET adjacent == WorldAdjacent(w.agent_pos)
    IN  [percept |->
            [breeze |-> \E c \in adjacent : c \in w.pits,
             stench |-> w.wumpus_alive /\ w.wumpus_pos \in adjacent,
             glitter |-> w.agent_pos = w.gold_pos /\ ~w.has_gold,
             bump |-> w.bump,
             scream |-> w.scream],
         world |-> [w EXCEPT !.bump = FALSE, !.scream = FALSE]]

\* WumpusWorld._move_forward
MoveForward(w) ==
    LET x == w.agent_pos[1]
        y == w.agent_pos[2]
        new_pos == IF w.agent_dir = NORTH THEN <<x, y - 1>>
                   ELSE IF w.agent_dir = SOUTH THEN <<x, y + 1>>
                   ELSE IF w.agent_dir = EAST THEN <<x + 1, y>>
                   ELSE <<x - 1, y>>
    IN  IF InBounds(new_pos)
        THEN [w EXCEPT !.agent_pos = new_pos]
        ELSE [w EXCEPT !.bump = TRUE]

\* WumpusWorld._turn_left
TurnLeft(w) == [w EXCEPT !.agent_dir = (w.agent_dir - 1) % 4]

\* WumpusWorld._turn_right
TurnRight(w) == [w EXCEPT !.agent_dir = (w.agent_dir + 1) % 4]

\* WumpusWorld._grab
Grab(w) ==
    IF w.agent_pos = w.gold_pos /\ ~w.has_gold
    THEN [w EXCEPT !.has_gold = TRUE, !.gold_pos = NoCell]
    ELSE w

\* The cells of the arrow's path in _shoot: straight ahead to the boundary.
ArrowPath(w) ==
    LET x == w.agent_pos[1]
        y == w.agent_pos[2]
    IN  {c \in Cells :
            IF w.agent_dir = NORTH THEN c[1] = x /\ c[2] < y
            ELSE IF w.agent_dir = SOUTH THEN c[1] = x /\ c[2] > y
            ELSE IF w.agent_dir = EAST THEN c[2] = y /\ c[1] > x
            ELSE c[2] = y /\ c[1] < x}

\* WumpusWorld._shoot
Shoot(w) ==
    IF ~w.has_arrow
    THEN w
    ELSE IF w.wumpus_alive /\ w.wumpus_pos \in ArrowPath(w)
         THEN [w EXCEPT !.has_arrow = FALSE, !.wumpus_alive = FALSE,
                        !.scream = TRUE]
         ELSE [w EXCEPT !.has_arrow = FALSE]

\* WumpusWorld._climb
Climb(w) == IF w.agent_pos = Home THEN [w EXCEPT !.exited = TRUE] ELSE w

\* WumpusWorld.step, "Check for death".
CheckDeath(w) ==
    IF w.agent_pos \in w.pits
    THEN [w EXCEPT !.agent_alive = FALSE]
    ELSE IF w.agent_pos = w.wumpus_pos /\ w.wumpus_alive
         THEN [w EXCEPT !.agent_alive = FALSE]
         ELSE w

\* WumpusWorld.step: the world after the action, the percept and done (the
\* reward and info are not modelled: the agent never reads them).
Step(w, act) ==
    IF ~w.agent_alive \/ w.exited
    THEN [world |-> GetPercept(w).world, percept |-> GetPercept(w).percept,
          done |-> TRUE]
    ELSE LET w1 == IF act = FORWARD THEN MoveForward(w)
                   ELSE IF act = LEFT THEN TurnLeft(w)
                   ELSE IF act = RIGHT THEN TurnRight(w)
                   ELSE IF act = GRAB THEN Grab(w)
                   ELSE IF act = SHOOT THEN Shoot(w)
                   ELSE IF act = CLIMB THEN Climb(w)
                   ELSE w
             w2 == CheckDeath(w1)
         IN  [world |-> GetPercept(w2).world, percept |-> GetPercept(w2).percept,
              done |-> ~w2.agent_alive \/ w2.exited]

(* ------------------------------ state ---------------------------------- *)

VARIABLES
    agent,      \* the Agent object
    world,      \* the WumpusWorld object (NoWorld when percepts are arbitrary)
    percept,    \* the percept vector of the last get_action call
    action,     \* the action the last get_action call returned
    cell,       \* the believed position the last call decided at (after bump)
    rule,       \* the policy rule that returned the action
    target,     \* the cell that rule aimed at (planner goal or shot cell)
    steps,      \* get_action calls so far in this episode
    pending,    \* the percept vector the world returned last, not yet read
    done        \* the driver's done flag

vars ==
    <<size, agent, world, percept, action, cell, rule, target, steps, pending, done>>

NoWorld == "no world"

(* -------------- the agent alone, under arbitrary percepts -------------- *)

Init ==
    /\ size = <<Width, Height>>
    /\ agent = NewEpisodeAgent
    /\ world = NoWorld
    /\ percept = NoPercept
    /\ action = NoAction
    /\ cell = Home
    /\ rule = "new_episode"
    /\ target = NoCell
    /\ steps = 0
    /\ pending = NoPercept
    /\ done = FALSE

\* new_episode as it would be if it kept the knowledge base and the plan
\* (resetting only the episodic state).
NewEpisodeKeepingKnowledge ==
    /\ agent' = [agent EXCEPT !.pos = Home, !.orientation = EAST,
                              !.has_gold = FALSE, !.has_arrow = TRUE,
                              !.wumpus_alive = TRUE, !.actually_moved = FALSE]
    /\ action' = NoAction
    /\ cell' = Home
    /\ rule' = "new_episode"
    /\ target' = NoCell
    /\ steps' = 0
    /\ UNCHANGED <<size, world, percept, pending, done>>

\* Agent.new_episode, called at any time. percept keeps the vector of the
\* last get_action call, which new_episode does not touch.
NewEpisode ==
    /\ agent' = NewEpisodeAgent
    /\ action' = NoAction
    /\ cell' = Home
    /\ rule' = "new_episode"
    /\ target' = NoCell
    /\ steps' = 0
    /\ UNCHANGED <<size, world, percept, pending, done>>

\* Agent.get_action on any percept vector.
GetActionAny ==
    /\ steps < MaxSteps
    /\ \E p \in PerceptVectors :
         \E o \in GetAction(agent, p) :
            /\ agent' = o.agent
            /\ percept' = p
            /\ action' = o.action
            /\ cell' = BumpCorrection(agent, p.bump).pos
            /\ rule' = o.rule
            /\ target' = o.target
    /\ steps' = steps + 1
    /\ UNCHANGED <<size, world, pending, done>>

Next == NewEpisode \/ GetActionAny

Spec == Init /\ [][Next]_vars

(* ------------- the agent against the world (run_episode) --------------- *)

\* run_episode's step budget (max_steps).
MaxEpisodeSteps == 100

\* run_episode up to its loop: agent.new_episode() and world.reset() on a
\* freshly generated world.
InitLoop ==
    /\ size = <<Width, Height>>
    /\ agent = NewEpisodeAgent
    /\ \E w \in GeneratedWorlds :
          /\ world = GetPercept(w).world
          /\ pending = GetPercept(w).percept
    /\ percept = NoPercept
    /\ action = NoAction
    /\ cell = Home
    /\ rule = "new_episode"
    /\ target = NoCell
    /\ steps = 0
    /\ done = FALSE

\* One pass of run_episode's loop: get_action on the pending percept, then
\* world.step on the action returned.
EpisodeStep ==
    /\ ~done
    /\ steps < MaxEpisodeSteps
    /\ \E o \in GetAction(agent, pending) :
          LET r == Step(world, o.action)
          IN  /\ agent' = o.agent
              /\ percept' = pending
              /\ action' = o.action
              /\ cell' = BumpCorrection(agent, pending.bump).pos
              /\ rule' = o.rule
              /\ target' = o.target
              /\ world' = r.world
              /\ pending' = r.percept
              /\ done' = r.done
    /\ steps' = steps + 1
    /\ UNCHANGED size

NextLoop == EpisodeStep

\* A pass of the loop, told by its counter. get_action always returns an
\* action, so a pass is possible exactly when the loop has not ended.
LoopPass == ~done /\ steps < MaxEpisodeSteps /\ steps' = steps + 1

\* The loop runs until done or until the budget is spent: weak fairness of
\* its pass.
SpecLoop == InitLoop /\ [][NextLoop]_vars /\ WF_steps(LoopPass)

(* ------------------- the planner alone (_plan_route_to) ---------------- *)

\* Standing plans the planner may find when it is called.
StandingPlans == {<<>>, <<FORWARD, LEFT>>}

\* Goals outside the grid a caller may pass: one past the east edge, one
\* past the west edge.
OutOfBoundsGoals == {<<size[1], 0>>, <<-1, 0>>}

\* The goals _plan_route_to is called with.
PlannerGoals == Cells \cup OutOfBoundsGoals

\* An agent anywhere on the grid, facing any way, with any safe set that
\* holds its own cell (get_action adds pos to safe before it plans) and any
\* standing plan; the goal is any cell of the grid or a coordinate outside.
InitPlan ==
    /\ size = <<Width, Height>>
    /\ \E sf \in SUBSET Cells : \E p \in sf : \E o \in Orientations :
         \E pl \in StandingPlans :
            agent = [NewEpisodeAgent EXCEPT !.pos = p, !.orientation = o,
                                            !.safe = sf, !.plan = pl]
    /\ target \in PlannerGoals
    /\ world = NoWorld
    /\ percept = NoPercept
    /\ action = NoAction
    /\ cell = Home
    /\ rule = "new_episode"
    /\ steps = 0
    /\ pending = NoPercept
    /\ done = FALSE

\* One call _plan_route_to(target).
PlanCall ==
    /\ steps = 0
    /\ LET r == PlanRouteTo(agent, target)
       IN  /\ agent' = r.agent
           /\ action' = r.action
    /\ rule' = "plan_route_to"
    /\ steps' = 1
    /\ UNCHANGED <<size, world, percept, cell, target, pending, done>>

NextPlan == PlanCall

SpecPlan == InitPlan /\ [][NextPlan]_vars

(* ---------------- the world alone, under arbitrary actions ------------- *)

\* step calls on one world when the actions are arbitrary.
MaxWorldSteps == 3

\* wumpus.Actions
Actions == {FORWARD, LEFT, RIGHT, GRAB, SHOOT, CLIMB}

\* WumpusWorld.reset on a freshly generated world; the agent is not involved.
InitWorld ==
    /\ size = <<Width, Height>>
    /\ agent = NewEpisodeAgent
    /\ \E w \in GeneratedWorlds :
          /\ world = GetPercept(w).world
          /\ pending = GetPercept(w).percept
    /\ percept = NoPercept
    /\ action = NoAction
    /\ cell = Home
    /\ rule = "reset"
    /\ target = NoCell
    /\ steps = 0
    /\ done = FALSE

\* WumpusWorld.step on any action, also after the episode has ended.
WorldStep ==
    /\ steps < MaxWorldSteps
    /\ \E act \in Actions :
          LET r == Step(world, act)
          IN  /\ action' = act
              /\ world' = r.world
              /\ pending' = r.percept
              /\ done' = r.done
    /\ rule' = "step"
    /\ steps' = steps + 1
    /\ UNCHANGED <<size, agent, percept, cell, target>>

NextWorld == WorldStep

SpecWorld == InitWorld /\ [][NextWorld]_vars

(* ------ the agent alone on a taller grid, under bumps and stenches ------ *)

\* get_action calls per episode on the taller grid.
MaxTallSteps == 8

\* The percept vectors with nothing but bump and stench.
BumpAndStench ==
    {p \in PerceptVectors : ~p.breeze /\ ~p.glitter /\ ~p.scream}

\* Agent((Width, Height + 1)) after new_episode.
InitTall ==
    /\ size = <<Width, Height + 1>>
    /\ agent = NewEpisodeAgent
    /\ world = NoWorld
    /\ percept = NoPercept
    /\ action = NoAction
    /\ cell = Home
    /\ rule = "new_episode"
    /\ target = NoCell
    /\ steps = 0
    /\ pending = NoPercept
    /\ done = FALSE

\* Agent.get_action on a percept vector with nothing but bump and stench.
GetActionBumpAndStench ==
    /\ steps < MaxTallSteps
    /\ \E p \in BumpAndStench :
         \E o \in GetAction(agent, p) :
            /\ agent' = o.agent
            /\ percept' = p
            /\ action' = o.action
            /\ cell' = BumpCorrection(agent, p.bump).pos
            /\ rule' = o.rule
            /\ target' = o.target
    /\ steps' = steps + 1
    /\ UNCHANGED <<size, world, pending, done>>

NextTall == GetActionBumpAndStench

SpecTall == InitTall /\ [][NextTall]_vars

(* ------------------------------ claims --------------------------------- *)

\* A step that is one get_action call (not new_episode).
IsGetAction == steps' = steps + 1

\* The in-bounds orthogonal neighbours of a cell, as a set.
Neighbours(c) == SeqRange(GetAdjacent(c))

\* C1: after new_episode and after any sequence of get_action calls with
\* arbitrary percept vectors, every cell in safe is a member of both pit_safe
\* and wumpus_safe.
C1_SafeSubset ==
    agent.safe \subseteq (agent.pit_safe \cap agent.wumpus_safe)

\* C2: if the agent emits FORWARD while believing it is at cell p and the
\* next percept has bump true, the position get_action corrects to is p;
\* this includes a FORWARD whose forward cell is out of bounds.
C2_BumpRestores ==
    [][(IsGetAction /\ action = FORWARD /\ percept'.bump) => cell' = cell]_vars

\* C3: within one episode, pit_safe, wumpus_safe and safe after a get_action
\* call are supersets of their values before the call.
C3_Monotone ==
    [][IsGetAction =>
          /\ agent.pit_safe \subseteq agent'.pit_safe
          /\ agent.wumpus_safe \subseteq agent'.wumpus_safe
          /\ agent.safe \subseteq agent'.safe]_vars

\* C3 witness: a second call has run and the three sets have grown.
C3_Witness ==
    /\ steps >= 2
    /\ Cardinality(agent.pit_safe) >= 3
    /\ Cardinality(agent.wumpus_safe) >= 3
    /\ Cardinality(agent.safe) >= 3

\* The states one action away from state st = <<cell, orientation>> in the
\* graph C4 names: LEFT, RIGHT, and FORWARD into an in-bounds safe cell.
GraphSuccessors(st, safe) ==
    LET fwd == GetForwardPosition(st[1], st[2])
    IN  {<<st[1], (st[2] + 3) % 4>>, <<st[1], (st[2] + 1) % 4>>}
        \cup (IF fwd # NoCell /\ fwd \in safe THEN {<<fwd, st[2]>>} ELSE {})

\* The least number of edges from a state of frontier to a state at goal,
\* frontier being the states at distance d; -1 when there is none.
RECURSIVE GraphDistance(_, _, _, _, _)
GraphDistance(frontier, seen, goal, safe, d) ==
    IF \E st \in frontier : st[1] = goal
    THEN d
    ELSE LET next == UNION {GraphSuccessors(st, safe) : st \in frontier} \ seen
         IN  IF next = {}
             THEN -1
             ELSE GraphDistance(next, seen \cup next, goal, safe, d + 1)

ShortestDistance(pos, orient, goal, safe) ==
    GraphDistance({<<pos, orient>>}, {<<pos, orient>>}, goal, safe, 0)

\* C4: for any safe set, start and goal reachable through safe cells, the
\* planner returns an action, and the returned action plus the stored plan
\* are as many actions as the shortest path to any state at the goal.
C4_PlannerOptimal ==
    (steps = 1 /\ rule = "plan_route_to") =>
        LET dist == ShortestDistance(agent.pos, agent.orientation, target,
                                     agent.safe)
        IN  /\ dist > 0 => (action # NoAction /\ 1 + Len(agent.plan) = dist)
            /\ action # NoAction => dist > 0

\* C4 witness: a route that pays for turns; the goal is two cells away and
\* the planned route has at least 5 actions.
C4_Witness ==
    /\ steps = 1
    /\ rule = "plan_route_to"
    /\ action # NoAction
    /\ Manhattan(agent.pos, target) = 2
    /\ 1 + Len(agent.plan) >= 5

\* C5: whenever _plan_route_to returns None, the standing plan and every
\* other field of the agent are as they were before the call.
C5_NullLeavesAgent ==
    [][(rule' = "plan_route_to" /\ action' = NoAction) => agent' = agent]_vars

\* C5 witness: an unreachable goal with a plan standing; None was returned
\* and the plan still stands.
C5_Witness ==
    /\ steps = 1
    /\ rule = "plan_route_to"
    /\ action = NoAction
    /\ agent.pos # target
    /\ agent.plan = <<FORWARD, LEFT>>

\* C6: against the world, on equal grids and for every placement, the agent
\* eventually emits CLIMB while at (0,0).
C6_EventuallyClimbs ==
    <>(action = CLIMB /\ cell = Home /\ world.exited)

\* C6 witness: a breeze and a stench at (0,0) left every other cell
\* unproven; the agent shot, missed, and climbed out from (0,0).
C6_Witness ==
    /\ action = CLIMB
    /\ cell = Home
    /\ world.exited
    /\ agent.visited = {Home}
    /\ agent.safe = {Home}
    /\ ~agent.has_arrow
    /\ world.wumpus_alive

\* C7 as claimed: on a get_action step with breeze true no neighbour of the
\* current cell is newly added to pit_safe, and on a step with stench true
\* none is newly added to wumpus_safe, also when scream is true.
C7_NoInferenceOnPresence ==
    [][IsGetAction =>
          /\ percept'.breeze =>
                Neighbours(cell') \cap (agent'.pit_safe \ agent.pit_safe) = {}
          /\ percept'.stench =>
                Neighbours(cell') \cap (agent'.wumpus_safe \ agent.wumpus_safe) = {}]_vars

\* C7 amended: as claimed for breeze; for stench, on the steps on which
\* scream is false (a scream promotes every pit_safe cell, neighbours too).
C7_NoInferenceUnlessScream ==
    [][IsGetAction =>
          /\ percept'.breeze =>
                Neighbours(cell') \cap (agent'.pit_safe \ agent.pit_safe) = {}
          /\ (percept'.stench /\ ~percept'.scream) =>
                Neighbours(cell') \cap (agent'.wumpus_safe \ agent.wumpus_safe) = {}]_vars

\* C7 witness: a call with breeze and stench and no scream, at a cell with a
\* neighbour that is in neither pit_safe nor wumpus_safe afterwards.
C7_Witness ==
    /\ steps > 0
    /\ percept.breeze /\ percept.stench /\ ~percept.scream /\ ~percept.glitter
    /\ \E c \in Neighbours(cell) :
          c \notin agent.pit_safe /\ c \notin agent.wumpus_safe

\* C8: after a get_action call whose percept has scream true, every cell
\* that was in pit_safe before the call is in wumpus_safe and in safe, and
\* wumpus_alive is false.
C8_KillPromotion ==
    [][(IsGetAction /\ percept'.scream) =>
          /\ agent.pit_safe \subseteq agent'.wumpus_safe
          /\ agent.pit_safe \subseteq agent'.safe
          /\ ~agent'.wumpus_alive]_vars

\* C8 witness: a scream arrived with stench (so the neighbour update added
\* nothing to wumpus_safe) and a pit_safe cell other than the current one is
\* now wumpus_safe and safe.
C8_Witness ==
    /\ steps > 0
    /\ percept.scream /\ percept.stench /\ ~percept.glitter
    /\ ~agent.wumpus_alive
    /\ \E c \in agent.pit_safe :
          c # cell /\ c # Home /\ c \in agent.wumpus_safe /\ c \in agent.safe

\* C9 as claimed: after a get_action step taken at cell c with breeze false
\* every in-bounds neighbour of c is in pit_safe, with stench false in
\* wumpus_safe, with both false in safe.
C9_AbsenceImpliesSafety ==
    steps > 0 =>
        /\ ~percept.breeze => Neighbours(cell) \subseteq agent.pit_safe
        /\ ~percept.stench => Neighbours(cell) \subseteq agent.wumpus_safe
        /\ (~percept.breeze /\ ~percept.stench) =>
              Neighbours(cell) \subseteq agent.safe

\* C9 amended: the same on the steps whose percept has glitter false (with
\* glitter true get_action returns GRAB before the neighbour update).
C9_AbsenceImpliesSafetyNoGlitter ==
    (steps > 0 /\ ~percept.glitter) =>
        /\ ~percept.breeze => Neighbours(cell) \subseteq agent.pit_safe
        /\ ~percept.stench => Neighbours(cell) \subseteq agent.wumpus_safe
        /\ (~percept.breeze /\ ~percept.stench) =>
              Neighbours(cell) \subseteq agent.safe

\* C9 witness: the first decision at (0,0) without any warning has put both
\* neighbours of the corner into safe.
C9_Witness ==
    /\ steps = 1
    /\ cell = Home
    /\ percept = NoPercept
    /\ Neighbours(Home) # {}
    /\ Neighbours(Home) \subseteq agent.safe

\* C10: for every agent state and every percept with glitter true,
\* get_action returns GRAB and sets has_gold.
C10_GlitterGrabs ==
    (steps > 0 /\ percept.glitter) => (action = GRAB /\ agent.has_gold)

\* C10 witness: glitter arrived while a plan was standing and the agent was
\* away from home; GRAB was returned.
C10_Witness ==
    /\ steps > 0
    /\ percept.glitter
    /\ action = GRAB
    /\ agent.plan # <<>>
    /\ cell # Home

\* The state <<cell, orientation>> an action leads to from st in the graph
\* of GraphSuccessors; st itself when FORWARD is not an edge there.
GraphMove(st, act, safe) ==
    LET fwd == GetForwardPosition(st[1], st[2])
    IN  IF act = LEFT THEN <<st[1], (st[2] + 3) % 4>>
        ELSE IF act = RIGHT THEN <<st[1], (st[2] + 1) % 4>>
        ELSE IF act = FORWARD /\ fwd # NoCell /\ fwd \in safe THEN <<fwd, st[2]>>
        ELSE st

\* The first actions of the shortest LEFT/RIGHT/FORWARD sequences through
\* safe cells from (pos, orient) to goal; empty when there is none.
ShortestFirstActions(pos, orient, goal, safe) ==
    LET dist == ShortestDistance(pos, orient, goal, safe)
    IN  IF dist <= 0
        THEN {}
        ELSE {act \in {LEFT, RIGHT, FORWARD} :
                LET st == GraphMove(<<pos, orient>>, act, safe)
                IN  /\ st # <<pos, orient>>
                    /\ ShortestDistance(st[1], st[2], goal, safe) = dist - 1}

\* C11: on a get_action step with has_gold true, glitter false and the
\* believed position different from (0,0), the action returned is the first
\* action of a shortest LEFT/RIGHT/FORWARD sequence through safe cells from
\* the current position and orientation to (0,0), whatever plan stands.
C11_GoldReturnShortest ==
    [][(IsGetAction /\ agent.has_gold /\ ~percept'.glitter /\ cell' # Home) =>
          action' \in ShortestFirstActions(cell', agent.orientation, Home,
                                           agent'.safe)]_vars

\* C12: (0,0) is a member of safe after new_episode and after every
\* get_action call of the episode, for any percept sequence.
C12_HomeSafe == Home \in agent.safe

\* C12 witness: the episode's last call has run, the agent believes itself
\* away from (0,0), and cells other than (0,0) have joined safe.
C12_Witness ==
    /\ steps = MaxSteps
    /\ agent.pos # Home
    /\ Cardinality(agent.safe) >= 3
    /\ Home \in agent.safe

C15_OutOfBoundsGoalFails ==
    (steps = 1 /\ rule = "plan_route_to" /\ ~InBounds(target)) =>
        action \notin {NoAction, LEFT, RIGHT, FORWARD}

\* The cell one step ahead of pos in direction dir (NORTH decreases y).
CellAhead(pos, dir) ==
    IF dir = NORTH THEN <<pos[1], pos[2] - 1>>
    ELSE IF dir = SOUTH THEN <<pos[1], pos[2] + 1>>
    ELSE IF dir = EAST THEN <<pos[1] + 1, pos[2]>>
    ELSE <<pos[1] - 1, pos[2]>>

\* The cells from pos onwards in direction dir, pos excluded, up to n ahead.
RECURSIVE CellsAhead(_, _, _)
CellsAhead(pos, dir, n) ==
    IF n = 0 THEN {}
    ELSE {CellAhead(pos, dir)} \cup CellsAhead(CellAhead(pos, dir), dir, n - 1)

\* C17: the percept a step call returns has bump true iff the step's action
\* was a FORWARD that hit the grid boundary, and scream true iff the step's
\* SHOOT killed the wumpus; so both are false again on the following step
\* unless the event recurs.
C17_OneShot ==
    [][rule' = "step" =>
          LET playing == world.agent_alive /\ ~world.exited
              hit == /\ playing
                     /\ action' = FORWARD
                     /\ ~InBounds(CellAhead(world.agent_pos, world.agent_dir))
              killed == /\ playing
                        /\ action' = SHOOT
                        /\ world.has_arrow
                        /\ world.wumpus_alive
                        /\ world.wumpus_pos \in
                              CellsAhead(world.agent_pos, world.agent_dir,
                                         Width + Height)
          IN  /\ pending'.bump <=> hit
              /\ pending'.scream <=> killed]_vars

\* C17 witness: the wumpus was shot on an earlier step (its scream is over)
\* and this step's FORWARD ran into the boundary.
C17_Witness ==
    /\ rule = "step"
    /\ action = FORWARD
    /\ pending.bump
    /\ ~pending.scream
    /\ ~world.wumpus_alive
    /\ ~world.has_arrow

\* C18: every FORWARD get_action returns moves the believed position into
\* the cell ahead, and that cell is in bounds and a member of safe at that
\* moment, for any sequence of percepts (a bump arriving while a plan of
\* several actions is pending included).
C18_ForwardIntoSafe ==
    [][(IsGetAction /\ action' = FORWARD) =>
          LET ahead == CellAhead(cell', agent.orientation)
          IN  /\ InBounds(ahead)
              /\ ahead \in agent'.safe
              /\ agent'.pos = ahead]_vars

\* C19: after any sequence of decision steps, whenever the believed position
\* is not (0,0), _plan_route_to((0,0)) returns an action.
C19_HomeReachable ==
    agent.pos # Home => PlanRouteTo(agent, Home).action # NoAction

\* C20: in the loop of get_action and step on grids of equal size, after
\* every step the agent's believed position, orientation, has_gold and
\* has_arrow equal the world's agent_pos, agent_dir, has_gold and has_arrow,
\* and the world never returns a percept with bump true.
C20_BeliefMatchesWorld ==
    /\ agent.pos = world.agent_pos
    /\ agent.orientation = world.agent_dir
    /\ agent.has_gold = world.has_gold
    /\ agent.has_arrow = world.has_arrow
    /\ ~pending.bump

\* C20 witness: the agent has turned, moved away from (0,0), shot its arrow
\* and grabbed the gold, and the world agrees on all of it.
C20_Witness ==
    /\ steps > 0
    /\ agent.pos # Home
    /\ agent.pos = world.agent_pos
    /\ agent.orientation # EAST
    /\ agent.orientation = world.agent_dir
    /\ agent.has_gold /\ world.has_gold
    /\ ~agent.has_arrow /\ ~world.has_arrow

\* C21: on a get_action step with glitter false, has_gold false and a
\* non-empty standing plan, the action returned is the head of the plan,
\* exactly that element is removed, and exploration, shooting and retreat
\* are not entered, even if the step's knowledge update exposed a nearer
\* safe unvisited cell.
C21_PlanContinuation ==
    [][(IsGetAction /\ ~percept'.glitter /\ ~agent.has_gold /\ agent.plan # <<>>) =>
          /\ action' = Head(agent.plan)
          /\ agent'.plan = Tail(agent.plan)
          /\ rule' = "plan"]_vars

\* C21 witness: a plan step moved the agent forward while another neighbour
\* of the cell it left, proven safe by this step's percept, stays unvisited.
C21_Witness ==
    /\ steps > 1
    /\ rule = "plan"
    /\ action = FORWARD
    /\ ~percept.breeze /\ ~percept.stench /\ ~percept.glitter
    /\ \E c \in Neighbours(cell) :
          c # agent.pos /\ c \in agent.safe /\ c \notin agent.visited

\* The cells of a set nearest to pos by Manhattan distance.
Nearest(pos, cells) ==
    {c \in cells : \A d \in cells : Manhattan(pos, c) <= Manhattan(pos, d)}

\* C22: on a get_action step with no glitter, no gold held, an empty plan
\* and a non-empty safe minus visited, the planner is called towards a cell
\* of safe minus visited at minimal Manhattan distance from the current
\* position, and the action returned is the first action of a shortest
\* route to that cell.
C22_FrontierExploration ==
    [][(/\ IsGetAction
        /\ ~percept'.glitter
        /\ ~agent.has_gold
        /\ agent.plan = <<>>
        /\ agent'.safe \ agent'.visited # {}) =>
          /\ rule' = "explore"
          /\ target' \in Nearest(cell', agent'.safe \ agent'.visited)
          /\ action' \in ShortestFirstActions(cell', agent.orientation, target',
                                              agent'.safe)]_vars

\* The quarter turns between two headings: 0, 1 or 2.
TurnsBetween(o1, o2) ==
    LET d == (o2 - o1 + 4) % 4
    IN  IF d = 3 THEN 1 ELSE d

\* The heading from pos towards an orthogonal neighbour c.
HeadingTo(pos, c) ==
    IF c[1] = pos[1] + 1 THEN EAST
    ELSE IF c[1] = pos[1] - 1 THEN WEST
    ELSE IF c[2] = pos[2] - 1 THEN NORTH
    ELSE SOUTH

\* The in-bounds neighbours of pos in the order south, east, north, west.
NeighboursInOrder(pos) ==
    SelectSeq(<< <<pos[1], pos[2] + 1>>, <<pos[1] + 1, pos[2]>>,
                 <<pos[1], pos[2] - 1>>, <<pos[1] - 1, pos[2]>> >>, InBounds)

\* C23 as claimed: SHOOT is returned only if no safe unvisited cell exists,
\* wumpus_alive and has_arrow were true, the current cell is in stench_at and
\* the agent faces the first in-bounds neighbour (south, east, north, west)
\* not in visited; while it does not face that neighbour the shooting rule
\* returns a LEFT or RIGHT that brings it one quarter turn closer, at most
\* two in all.
C23_ShootDiscipline ==
    [][IsGetAction =>
          LET unvisited == SelectSeq(NeighboursInOrder(cell'),
                                     LAMBDA c : c \notin agent'.visited)
              needed == HeadingTo(cell', Head(unvisited))
          IN  /\ action' = SHOOT =>
                    /\ agent'.safe \ agent'.visited = {}
                    /\ agent.wumpus_alive /\ ~percept'.scream
                    /\ agent.has_arrow
                    /\ cell' \in agent'.stench_at
                    /\ unvisited # <<>>
                    /\ agent.orientation = needed
              /\ (rule' = "shoot" /\ action' # SHOOT) =>
                    /\ action' \in {LEFT, RIGHT}
                    /\ unvisited # <<>>
                    /\ TurnsBetween(agent.orientation, needed) \in {1, 2}
                    /\ TurnsBetween(agent'.orientation, needed) =
                          TurnsBetween(agent.orientation, needed) - 1]_vars

\* The first of LEFT, RIGHT, FORWARD (in that order) that starts a shortest
\* sequence from st to goal, given that one exists.
LeastFirstAction(st, goal, safe) ==
    LET first == ShortestFirstActions(st[1], st[2], goal, safe)
    IN  IF LEFT \in first THEN LEFT
        ELSE IF RIGHT \in first THEN RIGHT
        ELSE FORWARD

\* The shortest sequence from st to goal that comes first when sequences are
\* compared action by action with LEFT before RIGHT before FORWARD; dist is
\* the length of the shortest sequences.
RECURSIVE FirstShortestPath(_, _, _, _)
FirstShortestPath(st, goal, safe, dist) ==
    IF dist <= 0
    THEN <<>>
    ELSE LET act == LeastFirstAction(st, goal, safe)
         IN  <<act>> \o FirstShortestPath(GraphMove(st, act, safe), goal, safe,
                                          dist - 1)

\* C24: what _plan_route_to returns and stores depends only on position,
\* orientation, safe and goal: it is the shortest path that breadth-first
\* discovery with successors taken LEFT, RIGHT, FORWARD and states kept on
\* first discovery finds first, which is the first of the shortest paths in
\* the order LEFT before RIGHT before FORWARD; when the shortest routes
\* start with a half-turn, the first action is LEFT.
C24_PlannerTieBreak ==
    (steps = 1 /\ rule = "plan_route_to" /\ action # NoAction) =>
        LET st == <<agent.pos, agent.orientation>>
            dist == ShortestDistance(agent.pos, agent.orientation, target,
                                     agent.safe)
        IN  <<action>> \o agent.plan =
                FirstShortestPath(st, target, agent.safe, dist)

\* C24 witness: the goal lies straight behind the agent; of the two shortest
\* routes (two LEFTs or two RIGHTs, then FORWARD) the one returned starts
\* with LEFT.
C24_Witness ==
    /\ steps = 1
    /\ rule = "plan_route_to"
    /\ action = LEFT
    /\ agent.plan = <<LEFT, FORWARD>>
    /\ RIGHT \in ShortestFirstActions(agent.pos, (agent.orientation + 1) % 4,
                                      target, agent.safe)

\* C25: in the loop of get_action and step on grids of equal size, for every
\* placement of pits, wumpus and gold, the agent never dies: the world's
\* agent position is never a pit and never the cell of a living wumpus.
C25_AgentNeverDies ==
    /\ world.agent_alive
    /\ world.agent_pos \notin world.pits
    /\ ~(world.wumpus_alive /\ world.agent_pos = world.wumpus_pos)

\* C25 witness: the agent stands away from (0,0), alive, on a cell where it
\* has just been told of the pit next to it.
C25_Witness ==
    /\ steps > 1
    /\ world.agent_alive
    /\ world.agent_pos # Home
    /\ cell = world.agent_pos
    /\ percept.breeze
    /\ \E c \in Neighbours(world.agent_pos) : c \in world.pits

\* C26: after any sequence of get_action calls, whatever the percepts (a
\* bump on the first call or right after a turn included), the believed
\* position and every member of visited and safe is a cell of the grid.
C26_KnowledgeInBounds ==
    /\ InBounds(agent.pos)
    /\ \A c \in agent.visited \cup agent.safe : InBounds(c)

\* C27: SHOOT is returned at most once per episode.  A get_action call that
\* returns SHOOT had the arrow and leaves has_arrow false, and a call made
\* without the arrow leaves has_arrow false and does not return SHOOT; only
\* new_episode gives the arrow back.
C27_ShootAtMostOnce ==
    [][IsGetAction =>
          /\ (action' = SHOOT => (agent.has_arrow /\ ~agent'.has_arrow))
          /\ (~agent.has_arrow => (~agent'.has_arrow /\ action' # SHOOT))]_vars

\* C27 witness: the arrow is spent, and a call made on a stench cell with
\* an unvisited neighbour, the wumpus believed alive, nothing left to
\* explore and no plan, has fallen through to CLIMB instead of shooting.
C27_Witness ==
    /\ steps > 1
    /\ rule = "climb"
    /\ ~agent.has_arrow
    /\ agent.wumpus_alive
    /\ percept.stench
    /\ cell \in agent.stench_at
    /\ \E c \in Neighbours(cell) : c \notin agent.visited

\* What a glitter step does to the knowledge and the plan: pit_safe and the
\* plan stay, wumpus_safe gains the scream promotion only, safe gains the
\* promotion and the current cell, visited gains the current cell, stench_at
\* gains it on a stench, and the orientation stays.
GlitterStepFrame ==
    LET promoted == IF percept'.scream THEN agent.pit_safe ELSE {}
    IN  /\ agent'.pit_safe = agent.pit_safe
        /\ agent'.wumpus_safe = agent.wumpus_safe \cup promoted
        /\ agent'.safe = agent.safe \cup promoted \cup {agent'.pos}
        /\ agent'.visited = agent.visited \cup {agent'.pos}
        /\ agent'.stench_at = agent.stench_at \cup
                              (IF percept'.stench THEN {agent'.pos} ELSE {})
        /\ agent'.plan = agent.plan
        /\ agent'.orientation = agent.orientation

\* C28 as claimed: on a step whose percept has glitter true, apart from the
\* scream promotion and recording the current cell in visited, safe and
\* stench_at, get_action leaves pit_safe, wumpus_safe, safe, the standing
\* plan, the position and the orientation unchanged.
C28_GlitterLeavesPosition ==
    [][(IsGetAction /\ percept'.glitter) =>
          (GlitterStepFrame /\ agent'.pos = agent.pos)]_vars

\* C28, amended: the same, except that on a bump the position is first set
\* one cell back along the heading, and that corrected cell is the one
\* recorded.
C28_GlitterFrame ==
    [][(IsGetAction /\ percept'.glitter) =>
          /\ GlitterStepFrame
          /\ ~percept'.bump => agent'.pos = agent.pos
          /\ percept'.bump =>
                 agent.pos = CellAhead(agent'.pos, agent.orientation)]_vars

\* C28 witness: glitter arrived with no breeze and no stench on a cell with
\* a neighbour not known pit-safe, which the skipped update would have
\* added; GRAB was returned.
C28_Witness ==
    /\ steps > 0
    /\ percept.glitter
    /\ ~percept.breeze
    /\ ~percept.stench
    /\ action = GRAB
    /\ agent.pos = cell
    /\ \E c \in Neighbours(cell) : c \notin agent.pit_safe

=============================================================================
